---- MODULE Spec2Model ----
(***************************************************************************)
(* A model of the EduSmart AI tutor: the conversation memory manager, the  *)
(* RAG pipeline's query, the tutor facade (initialize, sessions, chat),    *)
(* the LLM manager's backend selection, the confidence heuristic and the   *)
(* vector store's post-filtered similarity search.                         *)
(*                                                                         *)
(* Python values that may be None or a string are records: None_ and       *)
(* PyStr(s).  Text that the code inspects character by character (lower(), *)
(* the `in` substring test) is looked up in Chars as a sequence of         *)
(* one-character strings.                                                  *)
(***************************************************************************)
EXTENDS Integers, Sequences, FiniteSets, TLC

VARIABLES
    \* EduSmartAITutor
    is_initialized, components, current_session_id, system_stats, response,
    returned,
    \* RAGPipeline / VectorStoreManager
    chain, vector_store, vector_store_dir,
    \* ConversationMemoryManager
    student_profile, conversation_history, chat_memory,
    \* history variable: the number of interactions added since the last
    \* clear_memory or load_session
    n_added,
    \* the sessions/ directory, the state each file was saved from, the clock
    files, saved, now,
    \* LLMManager
    model_name, gemini_api_key, huggingface_api_token, use_local,
    llm, tokenizer, provider, llm_pc,
    \* RAGPipeline._calculate_confidence applied to a list of sources
    source_docs, confidence,
    \* VectorStoreManager.similarity_search applied to a store
    search_store, search_args, search_result

tutorVars == <<is_initialized, components, current_session_id, system_stats,
               response, returned, chain, vector_store, vector_store_dir, student_profile,
               conversation_history, chat_memory, n_added, files, saved, now>>
llmVars == <<model_name, gemini_api_key, huggingface_api_token, use_local,
             llm, tokenizer, provider, llm_pc>>
confVars == <<source_docs, confidence>>
searchVars == <<search_store, search_args, search_result>>
vars == <<tutorVars, llmVars, confVars, searchVars>>

----------------------------------------------------------------------------
(* Bounds of the model *)

\* the configured window size, Config.MAX_CONVERSATION_HISTORY
MaxHistory == 1
\* chat calls made on an initialized tutor: without sessions, and with them
MaxQueries == 2
MaxSessionQueries == 1
\* seconds the wall clock advances
MaxTime == 1
\* files the sessions/ directory has room for
MaxFiles == 1

----------------------------------------------------------------------------
(* Python values *)

None_ == [t |-> "None"]
PyStr(s) == [t |-> "str", v |-> s]

PyBool(b) == [t |-> "bool", v |-> b]
PyInt(n) == [t |-> "int", v |-> n]

\* bool(x) for None, str and int
Truthy(x) ==
    CASE x.t = "None" -> FALSE
      [] x.t = "str" -> x.v # ""
      [] x.t = "int" -> x.v # 0

IsInstanceStr(x) == x.t = "str"

\* seq[-n:]; -0 is 0, so seq[-0:] is the whole list
PyTail(seq, n) ==
    IF n = 0 \/ n >= Len(seq) THEN seq
    ELSE SubSeq(seq, Len(seq) - n + 1, Len(seq))

\* seq[:n] for n >= 0
PyHead(seq, n) == IF n >= Len(seq) THEN seq ELSE SubSeq(seq, 1, n)

Min(a, b) == IF a <= b THEN a ELSE b

\* datetime.now().isoformat()
Isoformat(t) == PyStr("2026-01-01T00:00:0" \o ToString(t))

\* datetime.now().strftime('%Y%m%d_%H%M%S')
Strftime(t) == "20260101_00000" \o ToString(t)

----------------------------------------------------------------------------
(* Text *)

UpperCase == <<"A","B","C","D","E","F","G","H","I","J","K","L","M",
               "N","O","P","Q","R","S","T","U","V","W","X","Y","Z">>
LowerCase == <<"a","b","c","d","e","f","g","h","i","j","k","l","m",
               "n","o","p","q","r","s","t","u","v","w","x","y","z">>

LowerChar(c) ==
    IF \E i \in 1..26 : UpperCase[i] = c
    THEN LowerCase[CHOOSE i \in 1..26 : UpperCase[i] = c]
    ELSE c

\* str.lower()
Lower(cs) == [i \in 1..Len(cs) |-> LowerChar(cs[i])]

\* needle in hay
Contains(hay, needle) ==
    \E i \in 1..(Len(hay) - Len(needle) + 1) :
        SubSeq(hay, i, i + Len(needle) - 1) = needle

\* any(word in text for word in words)
AnyIn(words, text) == \E w \in words : Contains(text, w)

\* the student messages of the model
Questions ==
    {"What is algebra?", "Show me an EASY example", "I like mathematics"}

\* messages that carry the learning-style keywords
StyleQuestions ==
    {"Why is it so?", "Let me TRY it", "How do I practice?"}

Chars(s) ==
    CASE s = "What is algebra?" ->
           <<"W","h","a","t"," ","i","s"," ","a","l","g","e","b","r","a","?">>
      [] s = "Show me an EASY example" ->
           <<"S","h","o","w"," ","m","e"," ","a","n"," ","E","A","S","Y"," ",
             "e","x","a","m","p","l","e">>
      [] s = "Why is it so?" ->
           <<"W","h","y"," ","i","s"," ","i","t"," ","s","o","?">>
      [] s = "Let me TRY it" ->
           <<"L","e","t"," ","m","e"," ","T","R","Y"," ","i","t">>
      [] s = "How do I practice?" ->
           <<"H","o","w"," ","d","o"," ","I"," ","p","r","a","c","t","i","c","e","?">>
      [] s = "I like mathematics" ->
           <<"I"," ","l","i","k","e"," ","m","a","t","h","e","m","a","t","i",
             "c","s">>

----------------------------------------------------------------------------
(* ConversationMemoryManager *)

EasyWords ==
    {<<"e","a","s","y">>,
     <<"s","i","m","p","l","e">>,
     <<"b","a","s","i","c">>}

HardWords ==
    {<<"h","a","r","d">>,
     <<"d","i","f","f","i","c","u","l","t">>,
     <<"c","h","a","l","l","e","n","g","i","n","g">>,
     <<"a","d","v","a","n","c","e","d">>}

VisualWords ==
    {<<"e","x","a","m","p","l","e">>,
     <<"s","h","o","w"," ","m","e">>,
     <<"d","e","m","o","n","s","t","r","a","t","e">>}

AnalyticalWords ==
    {<<"e","x","p","l","a","i","n">>,
     <<"w","h","y">>,
     <<"h","o","w">>}

HandsOnWords ==
    {<<"p","r","a","c","t","i","c","e">>,
     <<"t","r","y">>,
     <<"d","o">>}

\* student_profile as __init__ builds it
NewStudentProfile ==
    [learning_style |-> "adaptive",
     difficulty_preference |-> "medium",
     subjects_of_interest |-> <<>>,
     common_mistakes |-> <<>>,
     strengths |-> <<>>,
     session_count |-> 0,
     last_session |-> None_]

InList(x, list) == \E i \in 1..Len(list) : list[i] = x

\* metadata and 'subject' in metadata: None and {} are falsy
HasSubject(metadata) ==
    /\ "t" \notin DOMAIN metadata
    /\ "subject" \in DOMAIN metadata

\* the subject step of _update_student_profile
\* a variant that appends the subject without the membership test
UpdateSubjectsNoMembership(subjects, metadata) ==
    IF HasSubject(metadata)
       /\ Truthy(metadata.subject) /\ IsInstanceStr(metadata.subject)
    THEN Append(subjects, metadata.subject)
    ELSE subjects

UpdateSubjects(subjects, metadata) ==
    IF HasSubject(metadata)
       /\ Truthy(metadata.subject) /\ IsInstanceStr(metadata.subject)
       /\ ~InList(metadata.subject, subjects)
    THEN Append(subjects, metadata.subject)
    ELSE subjects

\* input_lower = human_input.lower(), for each message of the model
InputLower == [q \in Questions \cup StyleQuestions |-> Lower(Chars(q))]

\* any(word in input_lower for word in [...]), for each keyword list
Mentions ==
    [q \in Questions \cup StyleQuestions |->
        [easy |-> AnyIn(EasyWords, InputLower[q]),
         hard |-> AnyIn(HardWords, InputLower[q]),
         visual |-> AnyIn(VisualWords, InputLower[q]),
         analytical |-> AnyIn(AnalyticalWords, InputLower[q]),
         hands_on |-> AnyIn(HandsOnWords, InputLower[q])]]

DetectDifficulty(old, human_input) ==
    IF Mentions[human_input].easy THEN "easy"
    ELSE IF Mentions[human_input].hard THEN "hard"
    ELSE old

\* a variant that tests the analytical keywords first
DetectLearningStyleAnalyticalFirst(old, human_input) ==
    IF Mentions[human_input].analytical THEN "analytical"
    ELSE IF Mentions[human_input].visual THEN "visual"
    ELSE IF Mentions[human_input].hands_on THEN "hands-on"
    ELSE old

DetectLearningStyle(old, human_input) ==
    IF Mentions[human_input].visual THEN "visual"
    ELSE IF Mentions[human_input].analytical THEN "analytical"
    ELSE IF Mentions[human_input].hands_on THEN "hands-on"
    ELSE old

UpdateStudentProfile(profile, human_input, metadata, t) ==
    [profile EXCEPT
        !.subjects_of_interest = UpdateSubjects(@, metadata),
        !.difficulty_preference = DetectDifficulty(@, human_input),
        !.learning_style = DetectLearningStyle(@, human_input),
        !.session_count = @ + 1,
        !.last_session = Isoformat(t)]

\* {}
EmptyDict == [key \in {} |-> key]

Interaction(human_input, ai_response, metadata, t) ==
    [timestamp |-> Isoformat(t),
     human_input |-> human_input,
     ai_response |-> ai_response,
     metadata |-> IF "t" \in DOMAIN metadata THEN EmptyDict ELSE metadata]

\* a variant that keeps the oldest turns of the window
TrimHistoryOldest(history, max_history) ==
    IF Len(history) > max_history * 2
    THEN SubSeq(history, 1, max_history * 2)
    ELSE history

\* "Keep only recent interactions"
TrimHistory(history, max_history) ==
    IF Len(history) > max_history * 2
    THEN PyTail(history, max_history * 2)
    ELSE history

HumanMessage(content) == [type |-> "human", content |-> content]
AIMessage(content) == [type |-> "ai", content |-> content]

\* the next values of (chat_memory, conversation_history, student_profile)
\* when add_interaction runs on (messages, history, profile)
AddInteraction(messages, history, profile, human_input, ai_response, metadata, t) ==
    [chat_memory |->
        messages \o <<HumanMessage(human_input), AIMessage(ai_response)>>,
     conversation_history |->
        TrimHistory(
            Append(history, Interaction(human_input, ai_response, metadata, t)),
            MaxHistory),
     student_profile |->
        UpdateStudentProfile(profile, human_input, metadata, t)]

\* _clean in get_student_profile_summary
Clean(items) == SelectSeq(items, Truthy)

\* the parts get_student_profile_summary joins with " | "
GetStudentProfileSummary(profile) ==
    [interested_in |-> Clean(profile.subjects_of_interest),
     strengths |-> Clean(profile.strengths),
     areas_for_improvement |-> Clean(profile.common_mistakes),
     learning_style |-> profile.learning_style,
     preferred_difficulty |-> profile.difficulty_preference,
     sessions_completed |-> profile.session_count]

\* the last three turns get_conversation_context formats
GetConversationContext(history) ==
    [i \in 1..Len(PyTail(history, 3)) |->
        <<PyTail(history, 3)[i].human_input, PyTail(history, 3)[i].ai_response>>]

----------------------------------------------------------------------------
(* json.dump / json.load of a session file *)

JNull == [j |-> "null"]
JNum(n) == [j |-> "number", n |-> n]
JStr(s) == [j |-> "string", s |-> s]
JArr(items) == [j |-> "array", items |-> items]
JObj(members) == [j |-> "object", members |-> members]

\* None -> null, str -> string, int -> number, and back
DumpOptStr(x) ==
    CASE x.t = "None" -> JNull
      [] x.t = "str" -> JStr(x.v)
      [] x.t = "int" -> JNum(x.v)
LoadOptStr(jv) ==
    CASE jv.j = "null" -> None_
      [] jv.j = "string" -> PyStr(jv.s)
      [] jv.j = "number" -> PyInt(jv.n)

DumpList(list, Dump(_)) == JArr([i \in 1..Len(list) |-> Dump(list[i])])
LoadList(jv, Load(_)) == [i \in 1..Len(jv.items) |-> Load(jv.items[i])]

DumpProfile(p) ==
    JObj([learning_style |-> JStr(p.learning_style),
          difficulty_preference |-> JStr(p.difficulty_preference),
          subjects_of_interest |-> DumpList(p.subjects_of_interest, DumpOptStr),
          common_mistakes |-> DumpList(p.common_mistakes, DumpOptStr),
          strengths |-> DumpList(p.strengths, DumpOptStr),
          session_count |-> JNum(p.session_count),
          last_session |-> DumpOptStr(p.last_session)])

LoadProfile(jv) ==
    [learning_style |-> jv.members.learning_style.s,
     difficulty_preference |-> jv.members.difficulty_preference.s,
     subjects_of_interest |-> LoadList(jv.members.subjects_of_interest, LoadOptStr),
     common_mistakes |-> LoadList(jv.members.common_mistakes, LoadOptStr),
     strengths |-> LoadList(jv.members.strengths, LoadOptStr),
     session_count |-> jv.members.session_count.n,
     last_session |-> LoadOptStr(jv.members.last_session)]

LoadSourceName(jv) == jv.s

\* the metadata dict, key by key
DumpMetadata(m) ==
    JObj([key \in DOMAIN m |->
            CASE key = "subject" -> DumpOptStr(m[key])
              [] key = "num_sources" -> JNum(m[key])
              [] key = "sources" -> DumpList(m[key], JStr)])

LoadMetadata(jv) ==
    [key \in DOMAIN jv.members |->
        CASE key = "subject" -> LoadOptStr(jv.members[key])
          [] key = "num_sources" -> jv.members[key].n
          [] key = "sources" -> LoadList(jv.members[key], LoadSourceName)]

DumpInteraction(x) ==
    JObj([timestamp |-> DumpOptStr(x.timestamp),
          human_input |-> JStr(x.human_input),
          ai_response |-> JStr(x.ai_response),
          metadata |-> DumpMetadata(x.metadata)])

\* a stored turn comes back with the keys it was stored with
LoadInteraction(jv) ==
    [key \in DOMAIN jv.members |->
        CASE key = "timestamp" -> LoadOptStr(jv.members[key])
          [] key = "human_input" -> jv.members[key].s
          [] key = "ai_response" -> jv.members[key].s
          [] key = "metadata" -> LoadMetadata(jv.members[key])]

\* session_data of save_session, as json.dump writes it
DumpSession(profile, history, t) ==
    JObj([student_profile |-> DumpProfile(profile),
          conversation_history |-> DumpList(history, DumpInteraction),
          timestamp |-> DumpOptStr(Isoformat(t))])

\* session_data.get('student_profile', ...) of load_session
LoadedProfile(jv) == LoadProfile(jv.members.student_profile)

\* session_data.get('conversation_history', []) of load_session
LoadedHistory(jv) == LoadList(jv.members.conversation_history, LoadInteraction)

\* the messages load_session restores into the LangChain memory; the loop
\* ends at the first turn without 'human_input' or 'ai_response' (KeyError)
RECURSIVE RestoredMessages(_)
RestoredMessages(history) ==
    IF history = <<>> THEN <<>>
    ELSE IF "human_input" \notin DOMAIN Head(history) THEN <<>>
    ELSE IF "ai_response" \notin DOMAIN Head(history)
    THEN <<HumanMessage(Head(history).human_input)>>
    ELSE <<HumanMessage(Head(history).human_input),
           AIMessage(Head(history).ai_response)>>
         \o RestoredMessages(Tail(history))

\* a path that names no file
Missing == [j |-> "missing"]

\* the ids start_new_session is given or makes
GivenSessionIds == {"s1"}
GeneratedSessionId(t) == "session_" \o Strftime(t)
SessionIds == GivenSessionIds \cup {GeneratedSessionId(t) : t \in 0..MaxTime}
SessionFile(id) == "sessions/" \o id \o ".json"
SessionFiles == {SessionFile(id) : id \in SessionIds}

----------------------------------------------------------------------------
(* Document chunks and the vector store *)

\* dict.get(key) == value
MetaIs(metadata, key, value) == key \in DOMAIN metadata /\ metadata[key] = value

\* dict.get(key, default), for string values
MetaGet(metadata, key, default) ==
    IF key \in DOMAIN metadata THEN metadata[key] ELSE default

Chunk(content, source_file, file_type, subject) ==
    [page_content |-> content,
     metadata |-> [source_file |-> source_file, file_type |-> file_type,
                   subject |-> subject]]

SampleChunk(content, subject, topic) ==
    [page_content |-> content,
     metadata |-> [subject |-> subject, topic |-> topic,
                   source_file |-> "sample_curriculum", file_type |-> "generated"]]

\* create_sample_curriculum, one chunk a document
SampleCurriculum ==
    <<SampleChunk("Mathematics - Algebra Basics", "mathematics", "algebra_basics"),
      SampleChunk("Science - Introduction to Physics", "science", "physics_intro"),
      SampleChunk("English - Reading Comprehension", "english", "reading_comprehension")>>

\* load_documents on the files of curriculum_data/: file_type is the lower-cased
\* extension, subject is what _extract_subject_from_filename finds in the name
CurriculumDocuments ==
    <<Chunk("Linear equations", "algebra.pdf", ".pdf", "math"),
      Chunk("Course notes", "notes.txt", ".txt", "general")>>

Reverse(seq) == [i \in 1..Len(seq) |-> seq[Len(seq) + 1 - i]]

\* the index's ranking of the stored chunks for a query, nearest first
Ranking(store, query) ==
    IF query = "What is algebra?" THEN store ELSE Reverse(store)

\* vector_store.similarity_search(query, k=k)
TopK(store, query, k) == PyHead(Ranking(store, query), k)

\* the retriever's k, search_kwargs={"k": 4}
RetrieverK == 4

----------------------------------------------------------------------------
(* RAGPipeline *)

RECURSIVE QualityBonus(_)
\* quality_bonus of _calculate_confidence, in hundredths
QualityBonus(docs) ==
    IF docs = <<>> THEN 0
    ELSE (IF MetaIs(Head(docs).metadata, "file_type", "pdf") THEN 5 ELSE 0)
         + (IF ~MetaIs(Head(docs).metadata, "subject", "general") THEN 5 ELSE 0)
         + QualityBonus(Tail(docs))

\* base_confidence of _calculate_confidence, in hundredths
\* a variant without the cap of 0.9 on the base
BaseConfidenceNoCap(docs) == 50 + Len(docs) * 10

BaseConfidence(docs) == Min(90, 50 + Len(docs) * 10)

\* _calculate_confidence, in hundredths
CalculateConfidence(docs) ==
    IF docs = <<>> THEN 30
    ELSE Min(100, BaseConfidence(docs) + QualityBonus(docs))

FormatSources(docs) ==
    [i \in 1..Len(docs) |->
        [id |-> i,
         content |-> docs[i].page_content,
         metadata |-> [source_file |-> MetaGet(docs[i].metadata, "source_file", "Unknown"),
                       subject |-> MetaGet(docs[i].metadata, "subject", "General"),
                       topic |-> MetaGet(docs[i].metadata, "topic", "N/A")]]]

\* the metadata query hands to add_interaction
QueryMetadata(subject_filter, docs) ==
    [subject |-> subject_filter,
     num_sources |-> Len(docs),
     sources |-> [i \in 1..Len(docs) |->
                    MetaGet(docs[i].metadata, "source_file", "unknown")]]

RECURSIVE Join(_)
\* ', '.join(list of str)
Join(list) ==
    IF list = <<>> THEN ""
    ELSE IF Len(list) = 1 THEN Head(list).v
    ELSE Head(list).v \o ", " \o Join(Tail(list))

\* get_personalized_context
GetPersonalizedContext(profile) ==
    "STUDENT CONTEXT:\nLearning Style: " \o profile.learning_style
    \o "\nDifficulty Preference: " \o profile.difficulty_preference
    \o "\nSession Count: " \o ToString(profile.session_count)
    \o (IF profile.subjects_of_interest # <<>>
        THEN "\nInterested Subjects: " \o Join(profile.subjects_of_interest)
        ELSE "")

\* composed_question of query
ComposedQuestion(profile, question) ==
    "STUDENT CONTEXT: " \o GetPersonalizedContext(profile)
    \o "\n\nQUESTION: " \o question

\* what the chain's language model answers
ChainAnswers == {"Algebra uses symbols for numbers.", ""}

\* result.get("answer", ...) when the result has no "answer"
NoAnswerText == "I'm sorry, I couldn't generate a response."

\* generate_response: the cleaned text of the model, or its apology when the
\* model call raises
GeneratedText == "Let me break it down for you."
GenerateApology ==
    "I apologize, but I'm having trouble generating a response right now. Could you please rephrase your question?"

GenerateResponse(llm_ok) == IF llm_ok THEN GeneratedText ELSE GenerateApology

QueryApology ==
    "I apologize, but I'm having trouble processing your question right now. Could you please try rephrasing it?"

\* how the call of the chain ends: it returns the text of its language
\* model, or it raises and the language model of generate_response works or
\* raises too.  An LLMChain is called through invoke when the installed
\* LangChain gives chains that method, and through run otherwise.
ChainOutcomes(chain_kind) ==
    {[call |-> c, raised |-> FALSE, text |-> text] :
        c \in IF chain_kind = "LLMChain" THEN {"invoke", "run"} ELSE {"invoke"},
        text \in ChainAnswers}
    \cup {[call |-> "invoke", raised |-> TRUE, llm_ok |-> ok] : ok \in BOOLEAN}

\* the result of the try block of query: raised, or the answer and sources
\* and whether the chain saved the turn into its memory
ChainResult(chain_kind, outcome, store, question) ==
    IF outcome.raised THEN [raised |-> TRUE]
    ELSE IF chain_kind = "ConversationalRetrievalChain"
    THEN [raised |-> FALSE, answer |-> outcome.text,
          source_documents |-> TopK(store, question, RetrieverK),
          saves_context |-> TRUE]
    ELSE IF outcome.call = "invoke"
    THEN [raised |-> FALSE, answer |-> NoAnswerText,
          source_documents |-> <<>>, saves_context |-> FALSE]
    ELSE [raised |-> FALSE, answer |-> outcome.text,
          source_documents |-> <<>>, saves_context |-> FALSE]

\* a variant in which a failing generate_response reaches the second except
\* block of query
FallbackResponseReraising(profile, llm_ok) ==
    IF llm_ok
    THEN [answer |-> GeneratedText,
          sources |-> <<>>,
          student_profile |-> GetStudentProfileSummary(profile),
          confidence |-> 30]
    ELSE [answer |-> QueryApology,
          sources |-> <<>>,
          student_profile |-> "",
          confidence |-> 0]

\* the first except block of query
FallbackResponse(profile, llm_ok) ==
    [answer |-> GenerateResponse(llm_ok),
     sources |-> <<>>,
     student_profile |-> GetStudentProfileSummary(profile),
     confidence |-> 30]

\* the response of the try block of query
ChainResponse(profile, result) ==
    [answer |-> result.answer,
     sources |-> FormatSources(result.source_documents),
     student_profile |-> GetStudentProfileSummary(profile),
     confidence |-> CalculateConfidence(result.source_documents)]

----------------------------------------------------------------------------
(* EduSmartAITutor *)

NewSystemStats ==
    [total_queries |-> 0, successful_responses |-> 0,
     failed_responses |-> 0, documents_loaded |-> 0]

Store(docs) == [docs |-> docs]

\* how initialize can go: every component built; a constructor raising
\* (the embeddings of VectorStoreManager, LLMManager, RAGPipeline); the
\* splitter failing, so that split_documents returns []; the retrieval chain
\* failing to build, so that the pipeline falls back to an LLMChain
InitOutcomes ==
    {"ok", "embeddings_raise", "llm_raise", "split_fails",
     "chain_fallback", "chain_raise"}

\* what the student may pass as subject_filter
SubjectFilters == {None_, PyStr(""), PyStr("mathematics"), PyStr("science")}

\* the subject focus the web page passes: None for "All Subjects", or the
\* lower-cased name of the subject chosen
PageSubjectFilters == {None_, PyStr("mathematics"), PyStr("science")}

\* the message typed into the web page
PageQuestions == {"Show me an EASY example"}

\* what the caller may pass as session_id
SessionIdArgs == {None_, PyStr("")} \cup {PyStr(id) : id \in GivenSessionIds}

\* a new EduSmartAITutor, in a directory whose vector_store/ is stored_index
TutorInit(stored_index) ==
    /\ is_initialized = FALSE
    /\ components = {}
    /\ current_session_id = None_
    /\ system_stats = NewSystemStats
    /\ response = None_
    /\ returned = None_
    /\ chain = "None"
    /\ vector_store = None_
    /\ vector_store_dir = stored_index
    /\ student_profile = NewStudentProfile
    /\ conversation_history = <<>>
    /\ n_added = 0
    /\ chat_memory = <<>>
    /\ files = [f \in SessionFiles |-> Missing]
    /\ saved = [f \in SessionFiles |-> None_]
    /\ now = 0

\* the chunks _setup_vector_store builds when it loads no stored index
SetupChunks(outcome, has_curriculum) ==
    IF outcome = "split_fails" THEN <<>>
    ELSE IF has_curriculum THEN CurriculumDocuments
    ELSE SampleCurriculum

\* a variant in which _setup_vector_store logs its exception and returns
BuiltComponentsSetupSwallowed(outcome, loads, chunks) ==
    CASE outcome = "embeddings_raise" -> {"document_processor"}
      [] outcome = "llm_raise" ->
            {"document_processor", "vector_store_manager", "memory_manager"}
      [] outcome = "chain_raise" ->
            {"document_processor", "vector_store_manager",
             "memory_manager", "llm_manager"}
      [] OTHER ->
            {"document_processor", "vector_store_manager",
             "memory_manager", "llm_manager", "rag_pipeline"}

\* the components initialize assigns before it returns or an exception
\* reaches its except block
BuiltComponents(outcome, loads, chunks) ==
    CASE outcome = "embeddings_raise" -> {"document_processor"}
      [] outcome = "llm_raise" ->
            {"document_processor", "vector_store_manager", "memory_manager"}
      [] outcome = "chain_raise" \/ (~loads /\ chunks = <<>>) ->
            {"document_processor", "vector_store_manager",
             "memory_manager", "llm_manager"}
      [] OTHER ->
            {"document_processor", "vector_store_manager",
             "memory_manager", "llm_manager", "rag_pipeline"}

\* initialize()
Initialize(outcome, has_curriculum) ==
    LET loads == vector_store_dir # None_
        chunks == SetupChunks(outcome, has_curriculum)
        built == BuiltComponents(outcome, loads, chunks)
        reaches_setup == outcome \notin {"embeddings_raise", "llm_raise"}
        succeeds == "rag_pipeline" \in built
    IN  /\ ~is_initialized
        /\ components' = components \cup built
        /\ is_initialized' = succeeds
        \* a new VectorStoreManager holds no store until _setup_vector_store
        /\ vector_store' =
              IF "vector_store_manager" \notin built THEN vector_store
              ELSE IF ~reaches_setup THEN None_
              ELSE IF loads THEN vector_store_dir
              ELSE IF chunks = <<>> THEN None_
              ELSE Store(chunks)
        /\ vector_store_dir' =
              IF reaches_setup /\ ~loads /\ chunks # <<>>
              THEN Store(chunks) ELSE vector_store_dir
        /\ system_stats' =
              IF reaches_setup /\ ~loads
              THEN [system_stats EXCEPT !.documents_loaded = Len(chunks)]
              ELSE system_stats
        \* a new ConversationMemoryManager
        /\ IF "memory_manager" \in built
           THEN /\ student_profile' = NewStudentProfile
                /\ conversation_history' = <<>>
                /\ n_added' = 0
                /\ chat_memory' = <<>>
           ELSE UNCHANGED <<student_profile, conversation_history, n_added, chat_memory>>
        /\ chain' =
              IF ~succeeds THEN chain
              ELSE IF outcome = "chain_fallback" THEN "LLMChain"
              ELSE "ConversationalRetrievalChain"
        /\ response' = None_
        /\ returned' = PyBool(succeeds)
        /\ UNCHANGED <<current_session_id, files, saved, now>>

\* a variant in which clear_memory() leaves the history alone
ClearedHistoryKept == conversation_history

\* clear_memory() empties the LangChain memory and the history
ClearedHistory == <<>>

\* a variant in which clear_memory() starts the count of turns anew
ClearedProfileNoCount(profile) == [profile EXCEPT !.session_count = 0]

\* a variant in which clear_memory() also starts a new profile
ClearedProfileReset(profile) == NewStudentProfile

\* clear_memory() assigns nothing to student_profile
ClearedProfile(profile) == profile

ClearMemory ==
    /\ "memory_manager" \in components
    /\ chat_memory' = <<>>
    /\ conversation_history' = ClearedHistory
    /\ n_added' = 0
    /\ student_profile' = ClearedProfile(student_profile)
    /\ UNCHANGED <<is_initialized, components, current_session_id, system_stats,
                   chain, vector_store, vector_store_dir,
                   files, saved, now>>
    /\ response' = None_
    /\ returned' = None_

\* start_new_session(session_id)
StartNewSession(session_id) ==
    /\ current_session_id' =
          IF ~Truthy(session_id) THEN PyStr(GeneratedSessionId(now))
          ELSE session_id
    /\ IF "memory_manager" \in components
       THEN /\ chat_memory' = <<>>
            /\ conversation_history' = ClearedHistory
            /\ n_added' = 0
            /\ student_profile' = ClearedProfile(student_profile)
       ELSE UNCHANGED <<chat_memory, conversation_history, n_added, student_profile>>
    /\ UNCHANGED <<is_initialized, components, system_stats, chain,
                   vector_store, vector_store_dir, files,
                   saved, now>>
    /\ response' = None_
    /\ returned' = current_session_id'

\* whether save_session(filepath) writes the file: open() raises for a new
\* file when the directory is full, and may raise for any other reason;
\* save_session logs and swallows that
Writes(filepath, write_ok) ==
    /\ write_ok
    /\ \/ files[filepath] # Missing
       \/ Cardinality({f \in SessionFiles : files[f] # Missing}) < MaxFiles

\* the file system after save_session(filepath)
SaveSession(filepath, write_ok) ==
    IF Writes(filepath, write_ok)
    THEN [files EXCEPT ![filepath] =
             DumpSession(student_profile, conversation_history, now)]
    ELSE files

\* the memory a file was written from, kept beside the file
SavedFrom(filepath, write_ok) ==
    IF Writes(filepath, write_ok)
    THEN [saved EXCEPT ![filepath] =
             [student_profile |-> student_profile,
              conversation_history |-> conversation_history]]
    ELSE saved

\* end_session(save_session)
EndSession(save_session, write_ok) ==
    /\ IF save_session /\ "memory_manager" \in components
          /\ Truthy(current_session_id)
       THEN /\ files' = SaveSession(SessionFile(current_session_id.v), write_ok)
            /\ saved' = SavedFrom(SessionFile(current_session_id.v), write_ok)
            /\ current_session_id' = None_
       ELSE UNCHANGED <<files, saved, current_session_id>>
    /\ UNCHANGED <<is_initialized, components, system_stats, chain,
                   vector_store, vector_store_dir, student_profile,
                   conversation_history, n_added, chat_memory, now>>
    /\ response' = None_
    /\ returned' = PyBool(TRUE)

\* what get_system_status reports of the tutor
GetSystemStatus ==
    [is_initialized |-> is_initialized,
     current_session |-> current_session_id,
     stats |-> system_stats,
     components |-> components]

\* a variant that keeps only the window of max_history turns
LoadHistoryWindow(jv, max_history) == PyTail(LoadedHistory(jv), max_history)

\* conversation_history after load_session read the file
LoadHistory(jv, max_history) == LoadedHistory(jv)

\* memory_manager.load_session(filepath)
LoadSession(filepath) ==
    /\ "memory_manager" \in components
    /\ IF files[filepath].j \in {"missing", "invalid"}
       THEN UNCHANGED <<student_profile, conversation_history, n_added,
                        chat_memory>>
       ELSE /\ student_profile' = LoadedProfile(files[filepath])
            /\ conversation_history' = LoadHistory(files[filepath], MaxHistory)
            /\ n_added' = 0
            /\ chat_memory' =
                  RestoredMessages(
                      PyTail(LoadHistory(files[filepath], MaxHistory), MaxHistory))
    /\ UNCHANGED <<is_initialized, components, current_session_id, system_stats,
                   chain, vector_store, vector_store_dir, files,
                   saved, now>>
    /\ response' = None_
    /\ returned' = None_

\* a variant that answers like the fallback path of query
NotInitializedResponseFallback ==
    [answer |-> GenerateApology,
     sources |-> <<>>,
     student_profile |-> "",
     confidence |-> 30,
     error |-> "System not initialized"]

NotInitializedResponse ==
    [answer |-> "I'm sorry, but the AI tutor system is not properly initialized. Please try again later.",
     sources |-> <<>>,
     student_profile |-> "",
     confidence |-> 0,
     error |-> "System not initialized"]

\* the response of chat, from the response of query
ChatResponse(query_response, session_id, query_count) ==
    [answer |-> query_response.answer,
     sources |-> query_response.sources,
     student_profile |-> query_response.student_profile,
     confidence |-> query_response.confidence,
     session_id |-> session_id,
     query_count |-> query_count]

\* the memory after the try block of query: the retrieval chain saves the
\* turn into the memory it shares with the manager, then add_interaction runs
QueryMemory(result, question, subject_filter) ==
    AddInteraction(
        IF result.saves_context
        THEN chat_memory \o
             <<HumanMessage(ComposedQuestion(student_profile, question)),
               AIMessage(result.answer)>>
        ELSE chat_memory,
        conversation_history, student_profile, question, result.answer,
        QueryMetadata(subject_filter, result.source_documents), now)

\* a variant that counts only the responses with an answer
CountResponseAnswered(stats, succeeded) ==
    [stats EXCEPT
        !.total_queries = @ + 1,
        !.successful_responses = IF succeeded THEN @ + 1 ELSE @]

\* the counters after chat counted the query and its response
CountResponse(stats, succeeded) ==
    [stats EXCEPT
        !.total_queries = @ + 1,
        !.successful_responses = IF succeeded THEN @ + 1 ELSE @,
        !.failed_responses = IF succeeded THEN @ ELSE @ + 1]

\* chat(message, subject_filter), with rag_pipeline.query inside it
Chat(message, subject_filter, outcome) ==
    IF ~is_initialized
    THEN /\ response' = NotInitializedResponse
         /\ returned' = None_
         /\ UNCHANGED <<is_initialized, components, current_session_id,
                        system_stats, chain, vector_store, vector_store_dir,
                        student_profile, conversation_history, n_added, chat_memory,
                        files, saved, now>>
    ELSE
      LET result == ChainResult(chain, outcome, vector_store.docs, message)
          memory == QueryMemory(result, message, subject_filter)
          query_response ==
              IF result.raised
              THEN FallbackResponse(student_profile, outcome.llm_ok)
              ELSE ChainResponse(memory.student_profile, result)
          succeeded == query_response.answer # ""
      IN  /\ system_stats' = CountResponse(system_stats, succeeded)
          /\ IF result.raised
             THEN UNCHANGED <<student_profile, conversation_history, n_added, chat_memory>>
             ELSE /\ student_profile' = memory.student_profile
                  /\ conversation_history' = memory.conversation_history
                  /\ n_added' = n_added + 1
                  /\ chat_memory' = memory.chat_memory
          /\ response' = ChatResponse(query_response, current_session_id,
                                      system_stats.total_queries + 1)
          /\ returned' = None_
          /\ UNCHANGED <<is_initialized, components, current_session_id, chain,
                         vector_store, vector_store_dir, files, saved, now>>

\* the chunks load_documents and split_documents make of the files handed to
\* add_curriculum_content: none when no file can be read
NewCurriculumChunks ==
    {<<>>, <<Chunk("Cells", "biology.txt", ".txt", "science")>>}

\* a variant that builds the store anew from the added chunks
AddDocumentsReplacing(store, chunks) == Store(chunks)

\* vector_store.add_documents(chunks) on the store the manager holds
AddDocuments(store, chunks) == Store(store.docs \o chunks)

\* add_curriculum_content(file_paths); once it has chunks it ends "ok", or
\* add_documents raises ("add_raises"), or save_vector_store does
\* ("save_raises")
AddCurriculumContent(chunks, outcome) ==
    LET added == is_initialized /\ chunks # <<>> /\ outcome # "add_raises"
        saved_store == added /\ outcome = "ok"
    IN  /\ vector_store' =
              IF added THEN AddDocuments(vector_store, chunks) ELSE vector_store
        /\ vector_store_dir' =
              IF saved_store THEN AddDocuments(vector_store, chunks)
              ELSE vector_store_dir
        /\ system_stats' =
              IF saved_store
              THEN [system_stats EXCEPT !.documents_loaded = @ + Len(chunks)]
              ELSE system_stats
        /\ response' = None_
        /\ returned' = PyBool(saved_store)
        /\ UNCHANGED <<is_initialized, components, current_session_id, chain,
                       student_profile, conversation_history, n_added, chat_memory,
                       files, saved, now>>

\* the wall clock reaches the next second
Tick ==
    /\ now < MaxTime
    /\ now' = now + 1
    /\ UNCHANGED <<is_initialized, components, current_session_id, system_stats,
                   chain, vector_store, vector_store_dir,
                   student_profile, conversation_history, n_added, chat_memory, files,
                   saved>>
    /\ response' = None_
    /\ returned' = None_

----------------------------------------------------------------------------
(* LLMManager *)

\* the model names of the model
ModelNames ==
    {"gemini-1.5-flash", "GEMINI-pro", "Mistral-7B", "mistral-7b",
     "google/gemini-hf", "gpt2"}

NameChars(s) ==
    CASE s = "gemini-1.5-flash" ->
           <<"g","e","m","i","n","i","-","1",".","5","-","f","l","a","s","h">>
      [] s = "GEMINI-pro" ->
           <<"G","E","M","I","N","I","-","p","r","o">>
      [] s = "Mistral-7B" ->
           <<"M","i","s","t","r","a","l","-","7","B">>
      [] s = "mistral-7b" ->
           <<"m","i","s","t","r","a","l","-","7","b">>
      [] s = "google/gemini-hf" ->
           <<"g","o","o","g","l","e","/","g","e","m","i","n","i","-","h","f">>
      [] s = "gpt2" ->
           <<"g","p","t","2">>

Object(class) == [t |-> "object", class |-> class]

\* a variant that tests use_local before the Hugging Face token
SelectBackendLocalFirst(name, hf_token, local, gemini_key) ==
    IF local THEN "local_hf_pipeline"
    ELSE IF hf_token # ""
       /\ (Contains(NameChars(name), <<"/">>)
           \/ Contains(Lower(NameChars(name)), <<"m","i","s","t","r","a","l">>))
    THEN "huggingface_hub"
    ELSE IF gemini_key # "" /\ Contains(Lower(NameChars(name)), <<"g","e","m","i","n","i">>)
    THEN "gemini"
    ELSE "fallback_fake_llm"

\* the branch _initialize_model takes
SelectBackend(name, hf_token, local, gemini_key) ==
    IF hf_token # ""
       /\ (Contains(NameChars(name), <<"/">>)
           \/ Contains(Lower(NameChars(name)), <<"m","i","s","t","r","a","l">>))
    THEN "huggingface_hub"
    ELSE IF local THEN "local_hf_pipeline"
    ELSE IF gemini_key # "" /\ Contains(Lower(NameChars(name)), <<"g","e","m","i","n","i">>)
    THEN "gemini"
    ELSE "fallback_fake_llm"

\* the class of the llm each backend builds
BackendClass(backend) ==
    CASE backend = "huggingface_hub" -> "HuggingFaceHub"
      [] backend = "local_hf_pipeline" -> "HuggingFacePipeline"
      [] backend = "gemini" -> "ChatGoogleGenerativeAI"
      [] backend = "fallback_fake_llm" -> "FakeListLLM"

\* the fields after __init__ set them, before _initialize_model
LLMInit ==
    /\ model_name \in ModelNames
    /\ gemini_api_key \in {"", "gemini-key"}
    /\ huggingface_api_token \in {"", "hf-token"}
    /\ use_local \in BOOLEAN
    /\ llm = None_
    /\ tokenizer = None_
    /\ provider = "unknown"
    /\ llm_pc = [at |-> "_initialize_model", errors |-> 0]

\* an LLMManager nobody constructs
LLMIdle ==
    /\ model_name = "gemini-1.5-flash"
    /\ gemini_api_key = ""
    /\ huggingface_api_token = ""
    /\ use_local = FALSE
    /\ llm = None_
    /\ tokenizer = None_
    /\ provider = "unknown"
    /\ llm_pc = [at |-> "idle", errors |-> 0]

\* _initialize_model enters the initializer of the backend it selects
LLMSelect ==
    /\ llm_pc.at = "_initialize_model"
    /\ llm_pc' = [llm_pc EXCEPT !.at =
                    SelectBackend(model_name, huggingface_api_token,
                                  use_local, gemini_api_key)]
    /\ UNCHANGED <<model_name, gemini_api_key, huggingface_api_token,
                   use_local, llm, tokenizer, provider>>

\* how an initializer ends; the local one loads the tokenizer before the model
BackendOutcomes == {"ok", "raise", "raise_after_tokenizer"}

\* _initialize_huggingface_hub_model, _initialize_local_model and
\* _initialize_gemini_model: each sets llm and provider, or raises into the
\* except block of _initialize_model
LLMBackendInit(outcome) ==
    /\ llm_pc.at \in {"huggingface_hub", "local_hf_pipeline", "gemini"}
    /\ outcome = "raise_after_tokenizer" => llm_pc.at = "local_hf_pipeline"
    /\ IF outcome = "ok"
       THEN /\ llm' = Object(BackendClass(llm_pc.at))
            /\ provider' = llm_pc.at
            /\ llm_pc' = [llm_pc EXCEPT !.at = "returned"]
       ELSE /\ UNCHANGED <<llm, provider>>
            /\ llm_pc' = [at |-> "except", errors |-> llm_pc.errors + 1]
    /\ tokenizer' =
          IF llm_pc.at = "local_hf_pipeline" /\ outcome # "raise"
          THEN Object("AutoTokenizer") ELSE tokenizer
    /\ UNCHANGED <<model_name, gemini_api_key, huggingface_api_token, use_local>>

\* a variant of _initialize_fallback_model that leaves provider alone
FallbackFieldsNoProvider ==
    [llm |-> Object(BackendClass("fallback_fake_llm")),
     provider |-> "unknown"]

\* what _initialize_fallback_model assigns
FallbackFields ==
    [llm |-> Object(BackendClass("fallback_fake_llm")),
     provider |-> "fallback_fake_llm"]

\* _initialize_fallback_model, called in the else branch or in the except
\* block; raising in the else branch it is called again by the except block,
\* raising in the except block it makes the constructor raise
LLMFallbackInit(ok) ==
    /\ llm_pc.at \in {"fallback_fake_llm", "except"}
    /\ IF ok
       THEN /\ llm' = FallbackFields.llm
            /\ provider' = FallbackFields.provider
            /\ llm_pc' = [llm_pc EXCEPT !.at = "returned"]
       ELSE /\ UNCHANGED <<llm, provider>>
            /\ llm_pc' = [at |-> IF llm_pc.at = "except" THEN "raised" ELSE "except",
                          errors |-> llm_pc.errors + 1]
    /\ UNCHANGED <<model_name, gemini_api_key, huggingface_api_token,
                   use_local, tokenizer>>

----------------------------------------------------------------------------
(* _calculate_confidence on a list of retrieved sources *)

\* sources one call may retrieve
MaxSources == 5

\* the metadata of a source: file types 'pdf' and '.txt', subjects, and a
\* source with neither key
SourceKinds ==
    {[metadata |-> [file_type |-> ft, subject |-> sb]] :
        ft \in {"pdf", ".txt"}, sb \in {"general", "math"}}
    \cup {[metadata |-> [source_file |-> "untagged"]]}

SourceLists == UNION {[1..n -> SourceKinds] : n \in 0..MaxSources}

NotComputed == 0 - 1

ConfidenceInit ==
    /\ source_docs \in SourceLists
    /\ confidence = NotComputed

ConfidenceIdle ==
    /\ source_docs = <<>>
    /\ confidence = NotComputed

Calculate ==
    /\ confidence = NotComputed
    /\ confidence' = CalculateConfidence(source_docs)
    /\ UNCHANGED source_docs

----------------------------------------------------------------------------
(* VectorStoreManager.similarity_search *)

\* the largest k asked for, and the most chunks in the store
MaxK == 2
MaxStore == 4

\* all(doc.metadata.get(key) == value for key, value in filter_dict.items())
Matches(doc, filter_dict) ==
    \A key \in DOMAIN filter_dict : MetaIs(doc.metadata, key, filter_dict[key])

\* a variant that asks the index for k results only
FilterFetchK(k) == k

\* how many unfiltered results the filtered search asks the index for
FilterFetch(k) == k * 2

RECURSIVE FilterLoop(_, _, _, _)
\* the for loop: append each match, break once k are collected
FilterLoop(results, filter_dict, k, filtered_results) ==
    IF results = <<>> THEN filtered_results
    ELSE IF Matches(Head(results), filter_dict)
    THEN IF Len(filtered_results) + 1 >= k
         THEN Append(filtered_results, Head(results))
         ELSE FilterLoop(Tail(results), filter_dict, k,
                         Append(filtered_results, Head(results)))
    ELSE FilterLoop(Tail(results), filter_dict, k, filtered_results)

\* similarity_search(query, k, filter_dict); an empty or None filter is
\* falsy; a missing store or a raising index gives []
SimilaritySearch(store, query, k, filter_dict, index_raises) ==
    IF store = None_ \/ index_raises THEN <<>>
    ELSE IF filter_dict # None_ /\ DOMAIN filter_dict # {}
    THEN PyHead(FilterLoop(TopK(store.docs, query, FilterFetch(k)),
                           filter_dict, k, <<>>), k)
    ELSE TopK(store.docs, query, k)

SearchChunks ==
    {Chunk("a", "algebra.pdf", ".pdf", "math"),
     Chunk("b", "physics.txt", ".txt", "science"),
     Chunk("c", "numbers.txt", ".txt", "math")}

SearchStores ==
    {None_} \cup
    {Store(docs) : docs \in UNION {[1..n -> SearchChunks] : n \in 1..MaxStore}}

\* {} is written as the empty function
SearchFilters ==
    {None_, <<>>, [subject |-> "math"], [subject |-> "math", file_type |-> ".txt"]}

SearchInit ==
    /\ search_store \in SearchStores
    /\ search_args \in [query : Questions, k : 0..MaxK,
                        filter_dict : SearchFilters, index_raises : BOOLEAN]
    /\ search_result = None_

SearchIdle ==
    /\ search_store = None_
    /\ search_args = [query |-> "What is algebra?", k |-> 0,
                      filter_dict |-> None_, index_raises |-> FALSE]
    /\ search_result = None_

Search ==
    /\ search_result = None_
    /\ search_result' =
          [docs |-> SimilaritySearch(search_store, search_args.query,
                                     search_args.k, search_args.filter_dict,
                                     search_args.index_raises)]
    /\ UNCHANGED <<search_store, search_args>>

----------------------------------------------------------------------------
(* Specifications *)

TutorIdle == TutorInit(None_)

\* the tutor, its memory manager and its session files
\* sessions of the web page: the tutor starts with no stored index and no
\* curriculum files, and builds the retrieval chain or fails at the LLM
Init == TutorInit(None_) /\ LLMIdle /\ ConfidenceIdle /\ SearchIdle

TutorNext ==
    \/ \E outcome \in {"ok", "llm_raise"} : Initialize(outcome, FALSE)
    \/ \E session_id \in SessionIdArgs : StartNewSession(session_id)
    \/ \E save_session \in BOOLEAN, write_ok \in BOOLEAN :
          EndSession(save_session, write_ok)
    \/ \E message \in PageQuestions, subject_filter \in PageSubjectFilters,
          outcome \in ChainOutcomes(chain) :
          /\ system_stats.total_queries < MaxSessionQueries
          /\ Chat(message, subject_filter, outcome)
    \/ Tick

Next == TutorNext /\ UNCHANGED <<llmVars, confVars, searchVars>>

Spec == Init /\ [][Next]_vars

\* initialize and chat alone: every way initialize can go, with and without
\* a stored index and curriculum files, and every subject filter
InitChat ==
    /\ \E stored_index \in {None_, Store(CurriculumDocuments)} :
          TutorInit(stored_index)
    /\ LLMIdle /\ ConfidenceIdle /\ SearchIdle

ChatNext ==
    \/ \E outcome \in InitOutcomes, has_curriculum \in BOOLEAN :
          Initialize(outcome, has_curriculum)
    \/ \E message \in Questions, subject_filter \in SubjectFilters,
          outcome \in ChainOutcomes(chain) :
          /\ system_stats.total_queries < MaxQueries
          /\ Chat(message, subject_filter, outcome)

NextChat == ChatNext /\ UNCHANGED <<llmVars, confVars, searchVars>>

SpecChat == InitChat /\ [][NextChat]_vars

\* the curriculum of an initialized tutor: chunks are added while the tutor
\* chats and sessions start and end
CurriculumNext ==
    \/ \E outcome \in InitOutcomes, has_curriculum \in BOOLEAN :
          Initialize(outcome, has_curriculum)
    \/ \E chunks \in NewCurriculumChunks, outcome \in {"ok", "add_raises", "save_raises"} :
          /\ vector_store # None_ =>
                Len(vector_store.docs) + Len(chunks) <= MaxStore
          /\ AddCurriculumContent(chunks, outcome)
    \/ StartNewSession(None_)
    \/ \E save_session \in BOOLEAN, write_ok \in BOOLEAN :
          EndSession(save_session, write_ok)
    \/ \E message \in PageQuestions, outcome \in ChainOutcomes(chain) :
          /\ system_stats.total_queries < MaxSessionQueries
          /\ Chat(message, None_, outcome)

NextCurriculum == CurriculumNext /\ UNCHANGED <<llmVars, confVars, searchVars>>

SpecCurriculum == InitChat /\ [][NextCurriculum]_vars

\* a ConversationMemoryManager called directly
MaxInteractions == 3

MemoryQuestions == {"What is algebra?", "Show me an EASY example"}
MemoryAnswers == {"Algebra uses symbols for numbers."}
MemoryFiles == {SessionFile("s1")}

\* the metadata a caller may pass: None, a dict without 'subject', and
\* subjects that are None, empty, strings or no string at all
MemoryMetadata ==
    {None_, [num_sources |-> 0]}
    \cup {[subject |-> sb] :
            sb \in {None_, PyStr(""), PyStr("mathematics"), PyStr("science"),
                    PyInt(7)}}

InitMemory ==
    /\ is_initialized = FALSE
    /\ components = {"memory_manager"}
    /\ current_session_id = None_
    /\ system_stats = NewSystemStats
    /\ response = None_
    /\ returned = None_
    /\ chain = "None"
    /\ vector_store = None_
    /\ vector_store_dir = None_
    /\ student_profile = NewStudentProfile
    /\ conversation_history = <<>>
    /\ n_added = 0
    /\ chat_memory = <<>>
    /\ files = [f \in SessionFiles |-> Missing]
    /\ saved = [f \in SessionFiles |-> None_]
    /\ now = 0
    /\ LLMIdle /\ ConfidenceIdle /\ SearchIdle

\* memory_manager.add_interaction(human_input, ai_response, metadata)
MemAddInteraction(human_input, ai_response, metadata) ==
    LET memory == AddInteraction(chat_memory, conversation_history,
                                 student_profile, human_input, ai_response,
                                 metadata, now)
    IN  /\ student_profile.session_count < MaxInteractions
        /\ student_profile' = memory.student_profile
        /\ conversation_history' = memory.conversation_history
        /\ n_added' = n_added + 1
        /\ chat_memory' = memory.chat_memory
        /\ response' = None_
        /\ returned' = None_
        /\ UNCHANGED <<is_initialized, components, current_session_id,
                       system_stats, chain, vector_store, vector_store_dir,
                       files, saved, now>>

\* memory_manager.save_session(filepath)
MemSaveSession(filepath, write_ok) ==
    /\ files' = SaveSession(filepath, write_ok)
    /\ saved' = SavedFrom(filepath, write_ok)
    /\ response' = None_
    /\ returned' = None_
    /\ UNCHANGED <<is_initialized, components, current_session_id,
                   system_stats, chain, vector_store, vector_store_dir,
                   student_profile, conversation_history, n_added, chat_memory, now>>

MemoryNext ==
    \/ \E human_input \in MemoryQuestions, ai_response \in MemoryAnswers,
          metadata \in MemoryMetadata :
          MemAddInteraction(human_input, ai_response, metadata)
    \/ ClearMemory
    \/ \E filepath \in MemoryFiles, write_ok \in BOOLEAN :
          MemSaveSession(filepath, write_ok)
    \/ \E filepath \in MemoryFiles : LoadSession(filepath)

NextMemory == MemoryNext /\ UNCHANGED <<llmVars, confVars, searchVars>>

SpecMemory == InitMemory /\ [][NextMemory]_vars

\* several sessions of one tutor, the memory cleared by start_new_session
\* and by clear_memory called on the memory manager
NextSessions ==
    /\ \/ Initialize("ok", FALSE)
       \/ \E session_id \in SessionIdArgs : StartNewSession(session_id)
       \/ ClearMemory
       \/ \E message \in Questions, outcome \in ChainOutcomes(chain) :
             /\ system_stats.total_queries < MaxSessionQueries
             /\ Chat(message, None_, outcome)
       \/ Tick
    /\ UNCHANGED <<llmVars, confVars, searchVars>>

SpecSessions == Init /\ [][NextSessions]_vars

\* session files that this run of the program did not write: no file, a file
\* that is no JSON, a file save_session wrote in an earlier run, and files
\* whose last turn lacks 'human_input' or 'ai_response'
ForeignFiles ==
    LET profile == [NewStudentProfile EXCEPT !.learning_style = "visual",
                                             !.session_count = 1]
        turn == Interaction("What is algebra?",
                            "Algebra uses symbols for numbers.", EmptyDict, 0)
        File(turns) ==
            JObj([student_profile |-> DumpProfile(profile),
                  conversation_history |-> JArr(turns),
                  timestamp |-> DumpOptStr(Isoformat(0))])
        Without(key) ==
            JObj([k \in DOMAIN DumpInteraction(turn).members \ {key} |->
                     DumpInteraction(turn).members[k]])
    IN  {Missing, [j |-> "invalid"],
         File(<<DumpInteraction(turn)>>),
         File(<<DumpInteraction(turn), Without("human_input")>>),
         File(<<DumpInteraction(turn), Without("ai_response")>>)}

InitLoad ==
    /\ \E content \in ForeignFiles :
          files = [f \in SessionFiles |->
                      IF f \in MemoryFiles THEN content ELSE Missing]
    /\ is_initialized = FALSE
    /\ components = {"memory_manager"}
    /\ current_session_id = None_
    /\ system_stats = NewSystemStats
    /\ response = None_
    /\ returned = None_
    /\ chain = "None"
    /\ vector_store = None_
    /\ vector_store_dir = None_
    /\ student_profile = NewStudentProfile
    /\ conversation_history = <<>>
    /\ n_added = 0
    /\ chat_memory = <<>>
    /\ saved = [f \in SessionFiles |-> None_]
    /\ now = 0
    /\ LLMIdle /\ ConfidenceIdle /\ SearchIdle

\* add_interaction and load_session on such a directory
NextLoad ==
    /\ \/ \E human_input \in MemoryQuestions, ai_response \in MemoryAnswers,
             metadata \in MemoryMetadata :
             MemAddInteraction(human_input, ai_response, metadata)
       \/ \E filepath \in MemoryFiles : LoadSession(filepath)
    /\ UNCHANGED <<llmVars, confVars, searchVars>>

SpecLoad == InitLoad /\ [][NextLoad]_vars

\* add_interaction on messages with learning-style keywords
NextStyle ==
    /\ \E human_input \in MemoryQuestions \cup StyleQuestions,
          ai_response \in MemoryAnswers :
          MemAddInteraction(human_input, ai_response, None_)
    /\ UNCHANGED <<llmVars, confVars, searchVars>>

SpecStyle == InitMemory /\ [][NextStyle]_vars

\* the constructor of LLMManager
InitLLM == TutorIdle /\ LLMInit /\ ConfidenceIdle /\ SearchIdle

LLMNext ==
    \/ LLMSelect
    \/ \E outcome \in BackendOutcomes : LLMBackendInit(outcome)
    \/ \E ok \in BOOLEAN : LLMFallbackInit(ok)

NextLLM == LLMNext /\ UNCHANGED <<tutorVars, confVars, searchVars>>

SpecLLM == InitLLM /\ [][NextLLM]_vars

\* _calculate_confidence on every list of sources
InitConfidence == TutorIdle /\ LLMIdle /\ ConfidenceInit /\ SearchIdle

NextConfidence == Calculate /\ UNCHANGED <<tutorVars, llmVars, searchVars>>

SpecConfidence == InitConfidence /\ [][NextConfidence]_vars

\* similarity_search on every store and argument
InitSearch == TutorIdle /\ LLMIdle /\ ConfidenceIdle /\ SearchInit

NextSearch == Search /\ UNCHANGED <<tutorVars, llmVars, confVars>>

SpecSearch == InitSearch /\ [][NextSearch]_vars

----------------------------------------------------------------------------
(* Properties *)

\* C1: for a manager built with max_history = N, after any sequence of
\* add_interaction calls conversation_history holds at most N turns.
C1_HistoryAtMostMaxHistory == Len(conversation_history) <= MaxHistory

\* a step of chat on an initialized tutor: it counts the query
ChatStep ==
    /\ is_initialized
    /\ system_stats'.total_queries = system_stats.total_queries + 1

\* C2: after every chat call on an initialized tutor, whichever path of query
\* produced the answer, session_count is one greater than before the call and
\* the turn (the message and the answer returned) is the newest entry of
\* conversation_history.
C2_EveryChatUpdatesProfile ==
    [][ChatStep =>
          /\ student_profile'.session_count = student_profile.session_count + 1
          /\ conversation_history' # <<>>
          /\ conversation_history'[Len(conversation_history')].ai_response
                = response'.answer]_vars

\* the keys every response of query carries
QueryKeys == {"answer", "sources", "student_profile", "confidence"}

\* C3: query never raises: every chat on an initialized tutor gets a response
\* with the keys answer, sources, student_profile and confidence, and whenever
\* the chain call raises the response is the one of the fallback path: an
\* answer of generate_response, sources = [] and confidence 0.3.
C3_QueryFallback ==
    [][/\ ChatStep => (response' # None_ /\ QueryKeys \subseteq DOMAIN response')
       /\ \A message \in Questions, subject_filter \in SubjectFilters,
             llm_ok \in BOOLEAN :
             (is_initialized /\ response' # None_
              /\ Chat(message, subject_filter,
                      [call |-> "invoke", raised |-> TRUE, llm_ok |-> llm_ok]))
             => /\ response'.answer \in {GeneratedText, GenerateApology}
                /\ response'.answer = GenerateResponse(llm_ok)
                /\ response'.sources = <<>>
                /\ response'.confidence = 30
                /\ QueryKeys \subseteq DOMAIN response']_vars

\* a chat whose chain raised and whose LLM failed too has been answered
C3_Witness ==
    /\ is_initialized
    /\ response # None_
    /\ response.answer = GenerateApology
    /\ response.sources = <<>>
    /\ response.confidence = 30
    /\ student_profile.session_count = 0

\* the model names that contain each mark, as written and in any case
NamesWithSlash == {"google/gemini-hf"}
NamesWithMistral == {"mistral-7b"}
NamesWithMistralAnyCase == {"mistral-7b", "Mistral-7B"}
NamesWithGemini == {"gemini-1.5-flash", "google/gemini-hf"}
NamesWithGeminiAnyCase == {"gemini-1.5-flash", "google/gemini-hf", "GEMINI-pro"}

\* the backend of the precedence, given the names that count as containing
\* 'mistral' and 'gemini'
Precedence(mistral_names, gemini_names) ==
    IF huggingface_api_token # ""
       /\ model_name \in NamesWithSlash \cup mistral_names
    THEN "huggingface_hub"
    ELSE IF use_local THEN "local_hf_pipeline"
    ELSE IF gemini_api_key # "" /\ model_name \in gemini_names
    THEN "gemini"
    ELSE "fallback_fake_llm"

\* the constructor returned and no initializer raised
ReturnedWithoutError == llm_pc.at = "returned" /\ llm_pc.errors = 0

Providers == {"huggingface_hub", "local_hf_pipeline", "gemini", "fallback_fake_llm"}

\* C5: whenever the constructor returns, llm is not None and provider is one
\* of the four backends; if an initializer raised on the way, the provider is
\* 'fallback_fake_llm'.
C5_ConstructorReturns ==
    llm_pc.at = "returned" =>
        /\ llm # None_
        /\ provider \in Providers
        /\ llm = Object(BackendClass(provider))
        /\ llm_pc.errors > 0 =>
              (provider = "fallback_fake_llm" /\ llm = Object("FakeListLLM"))

\* the constructor returned after the local backend raised
C5_Witness ==
    /\ llm_pc.at = "returned"
    /\ llm_pc.errors = 1
    /\ use_local
    /\ tokenizer # None_
    /\ provider = "fallback_fake_llm"

C7_SubjectsDistinctStrings ==
    LET subjects == student_profile.subjects_of_interest IN
    /\ \A i \in 1..Len(subjects) :
          /\ subjects[i].t = "str"
          /\ subjects[i].v # ""
    /\ \A i, j \in 1..Len(subjects) : subjects[i] = subjects[j] => i = j

\* two subjects are listed after three interactions: one of them repeated a
\* subject or carried one that is not listed
C7_Witness ==
    /\ Len(student_profile.subjects_of_interest) = 2
    /\ student_profile.session_count = 3

\* the elements of a list
Elements(list) == {list[i] : i \in 1..Len(list)}

PdfSources ==
    {i \in 1..Len(source_docs) :
        /\ "file_type" \in DOMAIN source_docs[i].metadata
        /\ source_docs[i].metadata.file_type = "pdf"}
NotGeneralSources ==
    {i \in 1..Len(source_docs) :
        "subject" \in DOMAIN source_docs[i].metadata
            => source_docs[i].metadata.subject # "general"}

\* C9: in hundredths, _calculate_confidence gives 30 for no source and, for
\* n >= 1 sources, min(100, min(90, 50 + 10 n) + 5 p + 5 s); the value lies in
\* 30..100 and is at least 60 with a source.
C9_ConfidenceFormula ==
    confidence # NotComputed =>
        LET n == Len(source_docs)
            p == Cardinality(PdfSources)
            s == Cardinality(NotGeneralSources)
            capped == IF 50 + 10 * n > 90 THEN 90 ELSE 50 + 10 * n
            sum == capped + 5 * p + 5 * s
        IN  /\ n = 0 => confidence = 30
            /\ n >= 1 => confidence = IF sum > 100 THEN 100 ELSE sum
            /\ confidence >= 30 /\ confidence <= 100
            /\ n >= 1 => confidence >= 60

\* five sources, none of them earning a bonus: the cap of the base decides
C9_Witness ==
    /\ Len(source_docs) = 5
    /\ PdfSources = {}
    /\ NotGeneralSources = {}
    /\ confidence = 90

\* the search ran on a store, with a filter that is not empty
FilteredSearch ==
    /\ search_result # None_
    /\ search_store # None_
    /\ ~search_args.index_raises
    /\ search_args.filter_dict # None_
    /\ DOMAIN search_args.filter_dict # {}

\* whether a chunk carries every key of the filter of the search with its value
MatchesFilter(doc) ==
    \A key \in DOMAIN search_args.filter_dict :
        /\ key \in DOMAIN doc.metadata
        /\ doc.metadata[key] = search_args.filter_dict[key]

\* the top 2 k of the ranking, and the matches among them in ranking order
TopTwoK ==
    LET ranked == Ranking(search_store.docs, search_args.query)
    IN  [i \in 1..Min(2 * search_args.k, Len(ranked)) |-> ranked[i]]
TopTwoKMatches == SelectSeq(TopTwoK, MatchesFilter)

\* C10: similarity_search with a non-empty filter returns at most k chunks,
\* each matching every key and value of the filter, and they are the first
\* (up to k) matches among the top 2 k unfiltered results, in ranking order.
C10_FilteredSearch ==
    FilteredSearch =>
        LET docs == search_result.docs
            k == search_args.k
        IN  /\ Len(docs) <= k
            /\ \A i \in 1..Len(docs) : MatchesFilter(docs[i])
            /\ Len(docs) = Min(k, Len(TopTwoKMatches))
            /\ \A i \in 1..Len(docs) : docs[i] = TopTwoKMatches[i]

\* k = 1: the best result does not match, the second does and is returned,
\* and a third match lies in the store
C10_Witness ==
    /\ FilteredSearch
    /\ search_args.k = 1
    /\ Len(search_result.docs) = 1
    /\ ~MatchesFilter(TopTwoK[1])
    /\ Len(search_store.docs) > 2

\* C11: when chat is called with a subject_filter s, every source listed in
\* the response has subject metadata equal to s.
C11_SourcesMatchFilter ==
    [][\A message \in Questions, subject_filter \in SubjectFilters,
          outcome \in ChainOutcomes(chain) :
          (is_initialized /\ Truthy(subject_filter) /\ response' # None_
           /\ Chat(message, subject_filter, outcome))
          => \A i \in 1..Len(response'.sources) :
                response'.sources[i].metadata.subject = subject_filter.v]_vars

\* a step in which chat returned a response
ChatReturned == response' # None_

\* C12: after every step total_queries = successful_responses +
\* failed_responses; a chat on an initialized tutor adds exactly one to
\* total_queries and nothing else changes it; no counter ever decreases.
C12_StatsConsistent ==
    [][/\ system_stats'.total_queries
            = system_stats'.successful_responses + system_stats'.failed_responses
       /\ system_stats'.total_queries >= system_stats.total_queries
       /\ system_stats'.successful_responses >= system_stats.successful_responses
       /\ system_stats'.failed_responses >= system_stats.failed_responses
       /\ system_stats'.total_queries =
             IF ChatReturned /\ is_initialized
             THEN system_stats.total_queries + 1
             ELSE system_stats.total_queries]_vars

\* two chats were counted, one with an answer and one with an empty answer
C12_Witness ==
    /\ system_stats.total_queries = 2
    /\ system_stats.successful_responses = 1
    /\ system_stats.failed_responses = 1

\* C13: on an initialized tutor with a started session, the response of every
\* chat has a non-empty answer.
C13_AnswerNonEmpty ==
    (is_initialized /\ Truthy(current_session_id) /\ response # None_)
        => response.answer # ""

\* whether a message names the subject mathematics
NamesMathematics(message) ==
    Contains(InputLower[message], <<"m","a","t","h","e","m","a","t","i","c","s">>)

\* C14: after a chat turn whose message names mathematics and that passed no
\* subject_filter, the profile summary returned by a later chat turn lists
\* mathematics.
C14_SummaryMentionsNamedSubject ==
    (/\ is_initialized
     /\ response # None_
     /\ \E i \in 1..(Len(conversation_history) - 1) :
           /\ NamesMathematics(conversation_history[i].human_input)
           /\ conversation_history[i].metadata.subject = None_)
    => \E j \in 1..Len(response.student_profile.interested_in) :
          response.student_profile.interested_in[j] = PyStr("mathematics")

\* a step that is a call of add_curriculum_content
AddCall ==
    \E chunks \in NewCurriculumChunks, outcome \in {"ok", "add_raises", "save_raises"} :
        AddCurriculumContent(chunks, outcome)

\* C15: once initialize has succeeded the tutor holds a store, every stored
\* chunk stays in its place in the store, add_curriculum_content only
\* appends chunks, and no other operation changes the store.
C15_ChunksNeverRemoved ==
    [][is_initialized =>
          /\ vector_store # None_
          /\ vector_store' # None_
          /\ Len(vector_store'.docs) >= Len(vector_store.docs)
          /\ \A i \in 1..Len(vector_store.docs) :
                vector_store'.docs[i] = vector_store.docs[i]
          /\ vector_store' # vector_store => AddCall]_vars

\* a chunk was added to the sample curriculum, and a chat followed
C15_Witness ==
    /\ is_initialized
    /\ Len(vector_store.docs) = Len(SampleCurriculum) + 1
    /\ system_stats.total_queries = 1
    /\ Truthy(current_session_id)

AllComponents ==
    {"document_processor", "vector_store_manager", "memory_manager",
     "llm_manager", "rag_pipeline"}

\* a step that is a call of initialize
InitializeCall ==
    \E outcome \in InitOutcomes, has_curriculum \in BOOLEAN :
        Initialize(outcome, has_curriculum)

\* C16: initialize returns a boolean in every case, True exactly when
\* is_initialized is True afterwards; then all five components are set and
\* the manager holds a store; when a component is missing it returned False;
\* and every chat on a tutor that is not initialized gets the 'System not
\* initialized' response.
C16_InitializeResult ==
    [][/\ (returned' # None_ /\ InitializeCall) =>
             /\ returned' \in {PyBool(TRUE), PyBool(FALSE)}
             /\ returned'.v = is_initialized'
             /\ is_initialized' =>
                   (components' = AllComponents /\ vector_store' # None_)
             /\ components' # AllComponents => returned' = PyBool(FALSE)
       /\ (~is_initialized /\ response' # None_) =>
             /\ response' = NotInitializedResponse
             /\ response'.error = "System not initialized"
             /\ UNCHANGED system_stats]_vars

\* initialize failed at the LLM manager, and the chat that followed was
\* refused
C16_Witness ==
    /\ returned = None_
    /\ response = NotInitializedResponse
    /\ ~is_initialized
    /\ components = {"document_processor", "vector_store_manager", "memory_manager"}

\* a step that is a call of start_new_session, or of a saving end_session
StartCall == \E session_id \in SessionIdArgs : StartNewSession(session_id)
SavingEndCall ==
    /\ Truthy(current_session_id) /\ "memory_manager" \in components
    /\ \E write_ok \in BOOLEAN : EndSession(TRUE, write_ok)

\* what C17 says of start_new_session itself: it returns the new
\* current_session_id, which is the id supplied when one is supplied, and
\* leaves the history and the chain's memory empty; and only
\* start_new_session and a saving end_session change current_session_id
SessionStarts ==
    /\ \A session_id \in SessionIdArgs :
          (returned' # None_ /\ StartNewSession(session_id)) =>
              /\ returned' = current_session_id'
              /\ Truthy(returned')
              /\ Truthy(session_id) => returned' = session_id
              /\ conversation_history' = <<>>
              /\ chat_memory' = <<>>
    /\ current_session_id' # current_session_id => (StartCall \/ SavingEndCall)

\* C17: start_new_session returns s = current_session_id (the supplied id when
\* one is supplied) with the history and the chain's memory empty, and every
\* chat response of an initialized tutor carries session_id = s until the
\* next start_new_session or saving end_session.
C17_SessionIdCarried ==
    [][/\ SessionStarts
       /\ (is_initialized /\ response' # None_) =>
             /\ "session_id" \in DOMAIN response'
             /\ response'.session_id = current_session_id
             /\ current_session_id' = current_session_id]_vars

\* C17 as stated: the same of every chat response once a session was started.
C17_EveryResponseCarriesId ==
    [][/\ SessionStarts
       /\ (Truthy(current_session_id) /\ response' # None_) =>
             /\ "session_id" \in DOMAIN response'
             /\ response'.session_id = current_session_id]_vars

\* a chat answered and recorded in the session started with the id "s1"
C17_Witness ==
    /\ is_initialized
    /\ current_session_id = PyStr("s1")
    /\ response # None_
    /\ response.session_id = PyStr("s1")
    /\ Len(conversation_history) <= 1
    /\ student_profile.session_count >= 1

\* C18: when end_session(save_session=True) on a tutor with a memory manager
\* and a current session returns True, sessions/<current_session_id>.json
\* holds the profile and the history of that session.
C18_TrueOnlyIfWritten ==
    [][(SavingEndCall /\ returned' = PyBool(TRUE)) =>
          files'[SessionFile(current_session_id.v)]
              = DumpSession(student_profile, conversation_history, now)]_vars

\* the messages whose lower-cased text contains a keyword of each list
VisualMessages == {"Show me an EASY example"}
AnalyticalMessages ==
    {"Show me an EASY example", "Why is it so?", "How do I practice?"}
HandsOnMessages == {"Let me TRY it", "How do I practice?"}

\* C19: after add_interaction(q, ...) learning_style is 'visual' if the
\* lower-cased q contains 'example', 'show me' or 'demonstrate'; otherwise
\* 'analytical' if it contains 'explain', 'why' or 'how'; otherwise 'hands-on'
\* if it contains 'practice', 'try' or 'do'; otherwise what it was before.
C19_LearningStyleHeuristic ==
    [][student_profile'.session_count = student_profile.session_count + 1 =>
          LET q == conversation_history'[Len(conversation_history')].human_input
          IN  student_profile'.learning_style =
                 IF q \in VisualMessages THEN "visual"
                 ELSE IF q \in AnalyticalMessages THEN "analytical"
                 ELSE IF q \in HandsOnMessages THEN "hands-on"
                 ELSE student_profile.learning_style]_vars

\* a message with analytical and hands-on keywords made the style analytical,
\* and a message without keywords left it so
C19_Witness ==
    /\ Len(conversation_history) = 2
    /\ conversation_history[1].human_input = "How do I practice?"
    /\ conversation_history[2].human_input = "What is algebra?"
    /\ student_profile.session_count = 2
    /\ student_profile.learning_style = "analytical"


\* C20 read with the turns add_interaction finds in the history: when
\* add_interaction returns, conversation_history is the last
\* min(m, 2 * max_history) entries of the history it found followed by the new
\* interaction, in that order, so the oldest turns are the ones evicted, no
\* more recent turn is dropped or moved, and the length is at most
\* 2 * max_history.
C20_WindowOfLatestTurns ==
    [][n_added' = n_added + 1 =>
          /\ conversation_history' # <<>>
          /\ LET new == conversation_history'[Len(conversation_history')]
                 all == Append(conversation_history, new)
                 k == IF Len(all) < 2 * MaxHistory THEN Len(all)
                      ELSE 2 * MaxHistory
             IN  /\ new.human_input \in MemoryQuestions
                 /\ conversation_history' =
                       [i \in 1..k |-> all[Len(all) - k + i]]
          /\ Len(conversation_history') <= 2 * MaxHistory]_vars

\* C20 as written: when add_interaction returns, conversation_history holds
\* min(n, 2 * max_history) turns, n being the number of interactions added
\* since the last clear_memory or load_session.
C20_OnlyTurnsAddedSince ==
    [][n_added' = n_added + 1 =>
          Len(conversation_history') =
             IF n_added' < 2 * MaxHistory THEN n_added' ELSE 2 * MaxHistory]_vars

\* one interaction was added to a loaded history that filled the window: the
\* oldest loaded turn was evicted and the other is still there
C20_Witness ==
    /\ n_added = 1
    /\ Len(conversation_history) = 2 * MaxHistory
    /\ student_profile.session_count = MaxInteractions


\* C21: when the retrieval chain fails and the model call of the fallback
\* generation raises too, query returns the 'trouble processing your question'
\* apology with confidence 0.0.
C21_DoubleFailureApology ==
    [][\A message \in Questions, subject_filter \in SubjectFilters :
          (is_initialized /\ response' # None_
           /\ Chat(message, subject_filter,
                   [call |-> "invoke", raised |-> TRUE, llm_ok |-> FALSE]))
          => /\ response'.answer = QueryApology
             /\ response'.confidence = 0]_vars


\* C22: after end_session returns True, for either value of save_session,
\* current_session_id is None and get_system_status reports no current
\* session.
C22_EndSessionEndsSession ==
    [][\A save_session \in BOOLEAN, write_ok \in BOOLEAN :
          (returned' = PyBool(TRUE) /\ EndSession(save_session, write_ok))
          => /\ current_session_id' = None_
             /\ GetSystemStatus'.current_session = None_]_vars


\* C23: chat on a tutor that is not initialized returns the error response
\* (confidence 0.0, no sources, error 'System not initialized') and changes
\* neither system_stats, nor current_session_id, nor the profile, the history
\* and the chain's memory: no counter is incremented.
C23_UninitializedChatFrame ==
    [][(~is_initialized /\ ChatReturned) =>
          /\ response'.confidence = 0
          /\ response'.sources = <<>>
          /\ response'.error = "System not initialized"
          /\ system_stats'.total_queries = system_stats.total_queries
          /\ system_stats'.failed_responses = system_stats.failed_responses
          /\ UNCHANGED <<system_stats, current_session_id, student_profile,
                         conversation_history, chat_memory>>]_vars

\* initialize failed after it had built the memory manager, and a chat got
\* the error response
C23_Witness ==
    /\ ~is_initialized
    /\ "memory_manager" \in components
    /\ response # None_
    /\ response.error = "System not initialized"
    /\ system_stats.total_queries = 0
    /\ system_stats.failed_responses = 0


\* C24: each successful chat turn through the ConversationalRetrievalChain
\* adds exactly one human message and one AI message to the chain memory,
\* the pair of the turn recorded in conversation_history.
C24_OnePairPerTurn ==
    [][(is_initialized /\ chain = "ConversationalRetrievalChain"
        /\ ChatReturned /\ n_added' = n_added + 1) =>
          /\ Len(chat_memory') = Len(chat_memory) + 2
          /\ chat_memory'[Len(chat_memory') - 1].type = "human"
          /\ chat_memory'[Len(chat_memory')].type = "ai"
          /\ chat_memory'[Len(chat_memory')].content =
                conversation_history'[Len(conversation_history')].ai_response]_vars


\* the ids start_new_session makes up from the clock
GeneratedIds == {PyStr(GeneratedSessionId(t)) : t \in 0..MaxTime}

\* C25: a session started without an explicit id never receives the id of
\* the session before it, and a saving end_session of such a session never
\* writes over a session file that exists already.
C25_GeneratedIdsDistinct ==
    [][/\ (returned' # None_ /\ current_session_id \in GeneratedIds
           /\ StartNewSession(None_))
          => current_session_id' # current_session_id
       /\ (current_session_id \in GeneratedIds /\ files' # files
           /\ SavingEndCall)
          => files[SessionFile(current_session_id.v)] = Missing]_vars


\* C26: once initialize has succeeded, and after any calls of
\* add_curriculum_content, stats.documents_loaded is the number of chunks the
\* vector store holds, whether the store was created or loaded.
C26_DocumentsLoadedIsStoreSize ==
    is_initialized =>
        /\ vector_store # None_
        /\ system_stats.documents_loaded = Len(vector_store.docs)


\* C27: add_curriculum_content is all-or-nothing: when it returns False the
\* vector store in memory and stats.documents_loaded are what they were
\* before the call, and when it returns True documents_loaded grew by the
\* number of chunks added to the store.
C27_AddAllOrNothing ==
    [][\A chunks \in NewCurriculumChunks,
          outcome \in {"ok", "add_raises", "save_raises"} :
          (returned' # None_ /\ AddCurriculumContent(chunks, outcome)) =>
             /\ returned' = PyBool(FALSE) =>
                   /\ vector_store' = vector_store
                   /\ system_stats'.documents_loaded
                         = system_stats.documents_loaded
             /\ returned' = PyBool(TRUE) =>
                   system_stats'.documents_loaded
                      = system_stats.documents_loaded
                        + Len(vector_store'.docs) - Len(vector_store.docs)]_vars


\* load_session fails on this file: there is none, it is no JSON, or one of
\* its turns lacks 'human_input' or 'ai_response'
LoadFails(jv) ==
    \/ jv.j \in {"missing", "invalid"}
    \/ \E i \in 1..Len(jv.members.conversation_history.items) :
          ~({"human_input", "ai_response"} \subseteq
               DOMAIN jv.members.conversation_history.items[i].members)

\* C28: when load_session fails (missing file, invalid JSON, or a stored turn
\* lacking 'human_input' or 'ai_response') it leaves student_profile,
\* conversation_history and the chain memory as they were before the call.
C28_FailedLoadChangesNothing ==
    [][\A filepath \in MemoryFiles :
          (LoadFails(files[filepath]) /\ LoadSession(filepath))
          => UNCHANGED <<student_profile, conversation_history,
                         chat_memory>>]_vars


\* the sources of a response that come from a PDF file read by
\* load_documents, and those whose subject is not 'general'
PdfFileSources(sources) ==
    {i \in 1..Len(sources) : sources[i].metadata.source_file = "algebra.pdf"}
OtherSubjectSources(sources) ==
    {i \in 1..Len(sources) : sources[i].metadata.subject # "general"}

\* C29: a retrieved chunk that comes from a PDF file ingested by
\* load_documents earns the PDF bonus of 0.05: the confidence of a response
\* with n >= 1 sources, p of them from PDF files and s of a subject other
\* than 'general', is min(100, min(90, 50 + 10 n) + 5 p + 5 s) hundredths.
C29_PdfChunksEarnBonus ==
    [][(is_initialized /\ ChatReturned /\ response'.sources # <<>>) =>
          response'.confidence =
             Min(100,
                 Min(90, 50 + 10 * Len(response'.sources))
                 + 5 * Cardinality(PdfFileSources(response'.sources))
                 + 5 * Cardinality(OtherSubjectSources(response'.sources)))]_vars


\* C30: start_new_session and clear_memory leave every field of
\* student_profile as it was, and session_count goes up by one with every
\* recorded turn and changes in no other way while the tutor keeps its memory
\* manager: the profile carries over from one session to the next.
C30_ProfileCarriesOver ==
    [][/\ \A session_id \in SessionIdArgs :
             (returned' # None_ /\ StartNewSession(session_id))
             => student_profile' = student_profile
       /\ (conversation_history' = <<>> /\ ClearMemory)
             => student_profile' = student_profile
       /\ student_profile'.session_count
             # student_profile.session_count
                  + (IF n_added' = n_added + 1 THEN 1 ELSE 0)
          => InitializeCall]_vars

\* a second session was started after a turn of the first set the learning
\* style and the difficulty: the history is empty and the profile is kept
C30_Witness ==
    /\ Truthy(current_session_id)
    /\ returned = current_session_id
    /\ conversation_history = <<>>
    /\ student_profile.session_count >= 1
    /\ student_profile.learning_style = "visual"
    /\ student_profile.difficulty_preference = "easy"
    /\ student_profile.last_session # None_

====
